---- MODULE Spec2Model ----
(***************************************************************************)
(* Focus Garden: the session timer, the garden counters, the local         *)
(* snapshot and the best-effort remote mirror of src/app/app.vue (first    *)
(* <script setup> block, lines 1-900).                                     *)
(*                                                                         *)
(* Modelling conventions                                                   *)
(*  - A calendar day (the ISO string YYYY-MM-DD of todayISO) is a positive  *)
(*    integer day number; null is NoDate.  new Date(iso) of such a string  *)
(*    is UTC midnight, so Math.round((dToday - dLast) / 86400000) is the   *)
(*    difference of the day numbers.                                       *)
(*  - The code counts 60 one-second ticks per configured minute.  The      *)
(*    model counts TicksPerMinute ticks per minute so that a countdown is  *)
(*    short enough to enumerate; nothing else about the tick is changed.   *)
(*  - createLocalId() (a random UUID) is a fresh number taken from nextId. *)
(*  - A text is a sequence of one-character strings.                       *)
(***************************************************************************)
EXTENDS Integers, Sequences, FiniteSets, TLC

\* ---------------------------------------------------------------- bounds
TicksPerMinute == 1
MaxMinuteInput == 2
MaxDay == 3
FirstFocusMinutes == 2
FirstBreakMinutes == 1
MaxId == 3
MaxPending == 1
MaxSnapshotLog == 2
MaxStatDay == 5
MaxStatLog == 4

\* ------------------------------------------------------ program constants
DefaultFocusMinutes == 25
DefaultBreakMinutes == 5
HistoryCap == 100
TodoCap == 3
PlantCap == 12
RemoteHistoryLimit == 40
MinFocusMinutes == 5
MaxFocusMinutes == 180
MinBreakMinutes == 1
MaxBreakMinutes == 60

NoDate == 0
\* a completedAt that is the empty string (a day number is a non-empty
\* string, NoDate anything that is not a string)
EmptyText == 0 - 1
NoSnapshot == [none |-> TRUE]
NoRow == [none |-> TRUE]

Presets == {<<25, 5>>, <<50, 10>>, <<90, 20>>}
MinuteInputs == 0..MaxMinuteInput
TodoTexts == {<<" ">>, <<" ", "a", " ">>}

VARIABLES
  supabaseUrl, supabaseToken,
  focusMinutes, breakMinutes, mode, secondsLeft, running,
  timer, activeIntervals, syncInProgress,
  garden, history, todos,
  storage, todoDay,
  today, nextId, pc, dailyResetApplied,
  remoteGarden, remoteHistory, remoteTodos,
  gardenUpserts, requests,
  ticks, lastSyncDay, pushDropped

configVars == <<supabaseUrl, supabaseToken>>
timerVars == <<focusMinutes, breakMinutes, mode, secondsLeft, running, timer, activeIntervals>>
dataVars == <<garden, history, todos>>
localVars == <<storage, todoDay>>
remoteVars == <<remoteGarden, remoteHistory, remoteTodos>>
netVars == <<syncInProgress, gardenUpserts, requests>>
ghostVars == <<ticks, lastSyncDay, pushDropped>>
vars == <<configVars, timerVars, dataVars, localVars, remoteVars, netVars,
          today, nextId, pc, dailyResetApplied, ghostVars>>

\* ---------------------------------------------------------------- helpers
Max(a, b) == IF a >= b THEN a ELSE b
Min(a, b) == IF a <= b THEN a ELSE b

Take(s, n) == SubSeq(s, 1, Min(n, Len(s)))

RECURSIVE TrimLeft(_)
TrimLeft(s) ==
  IF s # << >> /\ Head(s) = " " THEN TrimLeft(Tail(s)) ELSE s

RECURSIVE TrimRight(_)
TrimRight(s) ==
  IF s # << >> /\ s[Len(s)] = " " THEN TrimRight(SubSeq(s, 1, Len(s) - 1)) ELSE s

Trim(s) == TrimRight(TrimLeft(s))

supabaseEnabled_urlOnly == supabaseUrl # ""

\* createSupabaseClient: enabled = Boolean(normalizedBaseUrl && normalizedToken)
supabaseEnabled == supabaseUrl # "" /\ supabaseToken # ""

durationFor(m, fm, bm) == IF m = "focus" THEN fm ELSE bm

EmptyGarden ==
  [totalSessions |-> 0, sessionsToday |-> 0, streakDays |-> 0, lastSessionDate |-> NoDate]

\* persist(): the snapshot written under STORAGE_KEY
Snapshot(fm, bm, m, s, g, h, t) ==
  [focusMinutes |-> fm, breakMinutes |-> bm, mode |-> m, secondsLeft |-> s,
   garden |-> g, history |-> h, todos |-> t]

\* sanitizeGardenState
sanitizeGardenState(value) ==
  [totalSessions |-> Max(0, value.totalSessions),
   sessionsToday |-> Max(0, value.sessionsToday),
   streakDays |-> Max(0, value.streakDays),
   lastSessionDate |-> value.lastSessionDate]

historyEntryValid_typeOnly(e) == e.sessionType \in {"focus", "break"}

\* sanitizeHistoryEntry: null (dropped) unless the type is focus or break and
\* completedAt is a string that is not empty: if (!type || !completedAt)
historyEntryValid(e) ==
  /\ e.sessionType \in {"focus", "break"}
  /\ e.completedAt \notin {NoDate, EmptyText}

sanitizeHistoryEntry(e) ==
  [id |-> e.id, sessionType |-> e.sessionType,
   durationMinutes |-> Max(1, IF e.durationMinutes # 0 THEN e.durationMinutes ELSE 1),
   completedAt |-> e.completedAt]

sanitizeHistory(h) ==
  LET kept == SelectSeq(h, historyEntryValid)
  IN [i \in 1..Len(kept) |-> sanitizeHistoryEntry(kept[i])]

\* sanitizeTodoItem: null (dropped) when the trimmed text is empty
todoItemValid(t) == Trim(t.todoText) # << >>
sanitizeTodoItem(t) ==
  [id |-> t.id, todoText |-> Trim(t.todoText), completed |-> t.completed,
   createdAt |-> t.createdAt]

sanitizeTodos(t) ==
  LET kept == SelectSeq(t, todoItemValid)
  IN Take([i \in 1..Len(kept) |-> sanitizeTodoItem(kept[i])], TodoCap)

\* a daily sync that cleared the lifetime total along with today's count
syncDailyCounters_clearsTotal(g, day) ==
  IF g.lastSessionDate # NoDate /\ g.lastSessionDate # day
  THEN [garden |-> [g EXCEPT !.sessionsToday = 0, !.totalSessions = 0], changed |-> TRUE]
  ELSE [garden |-> g, changed |-> FALSE]

\* syncDailyCounters: the garden it leaves and the value it returns
syncDailyCounters(g, day) ==
  IF g.lastSessionDate # NoDate /\ g.lastSessionDate # day
  THEN [garden |-> [g EXCEPT !.sessionsToday = 0], changed |-> TRUE]
  ELSE [garden |-> g, changed |-> FALSE]

\* a reset that ignored the stored last-reset-day marker
syncTodoDailyReset_everyStartup(t, savedDay, day) ==
  [todos |-> [i \in 1..Len(t) |-> [t[i] EXCEPT !.completed = FALSE]],
   todoDay |-> day,
   changed |-> \E i \in 1..Len(t) : t[i].completed]

\* syncTodoDailyReset: the todos and the day marker it leaves, and its result
syncTodoDailyReset(t, savedDay, day) ==
  IF savedDay # day
  THEN [todos |-> [i \in 1..Len(t) |-> [t[i] EXCEPT !.completed = FALSE]],
        todoDay |-> day,
        changed |-> \E i \in 1..Len(t) : t[i].completed]
  ELSE [todos |-> t, todoDay |-> savedDay, changed |-> FALSE]

streakAfter_neverResets(g, day) ==
  IF g.lastSessionDate = NoDate THEN 1
  ELSE LET delta == day - g.lastSessionDate
       IN IF delta >= 1 THEN g.streakDays + 1 ELSE g.streakDays

\* [...focusDays].sort(): the distinct days in ascending order
RECURSIVE sortDays(_)
sortDays(days) ==
  IF days = {} THEN << >>
  ELSE LET first == CHOOSE d \in days : \A o \in days : d <= o
       IN <<first>> \o sortDays(days \ {first})

\* the for loop of bestStreakFromHistory over the sorted days still to visit
RECURSIVE streakScan(_, _, _, _)
streakScan(sorted, prev, current, best) ==
  IF sorted = << >> THEN best
  ELSE LET day == Head(sorted)
           next == IF prev = NoDate THEN 1
                   ELSE IF day - prev = 1 THEN current + 1 ELSE 1
       IN streakScan(Tail(sorted), day, next, Max(best, next))

bestStreakFromHistory_countsBreaks(h) ==
  streakScan(sortDays({h[i].completedAt : i \in 1..Len(h)}), NoDate, 0, 0)

\* bestStreakFromHistory; completedAt holds the calendar day of the
\* timestamp, which is what dayFromIsoTimestamp cuts out of it
bestStreakFromHistory(h) ==
  LET focusDays == {h[i].completedAt : i \in {j \in 1..Len(h) : h[j].sessionType = "focus"}}
  IN streakScan(sortDays(focusDays), NoDate, 0, 0)

\* plantCount: Math.min(12, Math.floor(totalSessions / 2) + 1); the plants
\* rendered are those with index 0..plantCount - 1
plantCount(totalSessions) == Min(PlantCap, totalSessions \div 2 + 1)

\* completeFocusSession: newPlantIndices, the indices put into newlyPlanted
newPlantIndices(prevCount, newCount) ==
  {i \in 0..(newCount \div 2) : prevCount \div 2 <= i /\ i < newCount \div 2}

\* completeFocusSession: the streak rule
streakAfter(g, day) ==
  IF g.lastSessionDate = NoDate THEN 1
  ELSE LET delta == day - g.lastSessionDate
       IN IF delta = 1 THEN g.streakDays + 1
          ELSE IF delta > 1 THEN 1
          ELSE g.streakDays

\* completeFocusSession of the first version of the page (the script kept in
\* src/supabase/garden_sessions.sql): same day keeps the streak, the day
\* after adds 1, anything else restarts at 1
streakAfterFirstVersion(g, day) ==
  IF g.lastSessionDate = NoDate THEN 1
  ELSE LET delta == day - g.lastSessionDate
       IN IF delta = 0 THEN g.streakDays
          ELSE IF delta = 1 THEN g.streakDays + 1
          ELSE 1

completeFocusSession_creditsTwice(g, day) ==
  [totalSessions |-> g.totalSessions + 2,
   sessionsToday |-> g.sessionsToday + 2,
   streakDays |-> streakAfter(g, day),
   lastSessionDate |-> day]

\* completeFocusSession: the counters after one credited focus session
completeFocusSession(g, day) ==
  [totalSessions |-> g.totalSessions + 1,
   sessionsToday |-> g.sessionsToday + 1,
   streakDays |-> streakAfter(g, day),
   lastSessionDate |-> day]

\* recordCompletedSession: the entry and the log after prepending it
newHistoryEntry(id, sessionType, durationMinutes, day) ==
  [id |-> id, sessionType |-> sessionType,
   durationMinutes |-> Max(1, IF durationMinutes # 0 THEN durationMinutes ELSE 1),
   completedAt |-> day]

recordCompletedSession_keepsOneLess(h, entry) == Take(<<entry>> \o h, HistoryCap - 1)

\* recordCompletedSession: [entry, ...history].slice(0, 100)
recordCompletedSession(h, entry) == Take(<<entry>> \o h, HistoryCap)

gardenSyncStarts_unguarded(inProgress) == supabaseEnabled

\* syncGardenToSupabase: does the guard let an upsert out
gardenSyncStarts(inProgress) == supabaseEnabled /\ ~inProgress

\* upsertGarden: the payload (user_id and updated_at left out)
gardenRow(state) ==
  [total_sessions |-> state.totalSessions, sessions_today |-> state.sessionsToday,
   streak_days |-> state.streakDays, last_session_date |-> state.lastSessionDate]

\* loadFromSupabase: the garden built from the row of garden_sessions
gardenFromRow(row) ==
  sanitizeGardenState([totalSessions |-> row.total_sessions,
                       sessionsToday |-> row.sessions_today,
                       streakDays |-> row.streak_days,
                       lastSessionDate |-> row.last_session_date])

\* insertHistory: the payload
historyRow(entry) ==
  [id |-> entry.id, session_type |-> entry.sessionType,
   duration_minutes |-> entry.durationMinutes, completed_at |-> entry.completedAt]

\* loadFromSupabase: the entry handed to sanitizeHistoryEntry for a row
historyFromRow(row) ==
  [id |-> row.id, sessionType |-> row.session_type,
   durationMinutes |-> row.duration_minutes, completedAt |-> row.completed_at]

\* insertTodo: the payload
todoRow(item) ==
  [id |-> item.id, todo_text |-> item.todoText, completed |-> item.completed,
   created_at |-> item.createdAt]

\* loadFromSupabase: the item handed to sanitizeTodoItem for a row
todoFromRow(row) ==
  [id |-> row.id, todoText |-> row.todo_text, completed |-> row.completed,
   createdAt |-> row.created_at]

\* the fire-and-forget pushes of one history entry / todo change
pushRequest(kind, payload) ==
  IF supabaseEnabled THEN {[kind |-> kind, payload |-> payload]} ELSE {}

\* ------------------------------------------------------------------ Init
InitMemory ==
  /\ focusMinutes = DefaultFocusMinutes
  /\ breakMinutes = DefaultBreakMinutes
  /\ mode = "focus"
  /\ secondsLeft = DefaultFocusMinutes * TicksPerMinute
  /\ running = FALSE
  /\ timer = FALSE
  /\ activeIntervals = 0
  /\ syncInProgress = FALSE
  /\ garden = EmptyGarden
  /\ history = << >>
  /\ todos = << >>
  /\ pc = "created"
  /\ dailyResetApplied = FALSE

\* The snapshot of an earlier visit on which the user typed FirstFocusMinutes
\* and FirstBreakMinutes into the Focus / Break inputs and did nothing else:
\* what the minutes watcher persisted.
FirstVisitSnapshot ==
  Snapshot(FirstFocusMinutes, FirstBreakMinutes, "focus",
           FirstFocusMinutes * TicksPerMinute, EmptyGarden, << >>, << >>)

\* the device and the backend before the page is opened, the snapshot aside
InitDevice ==
  /\ todoDay = NoDate
  /\ today = 1
  /\ nextId = 1
  /\ remoteGarden = NoRow
  /\ remoteHistory = {}
  /\ remoteTodos = {}
  /\ gardenUpserts = << >>
  /\ requests = {}
  /\ ticks = 0
  /\ lastSyncDay = NoDate
  /\ pushDropped = FALSE

InitWorld ==
  /\ storage = FirstVisitSnapshot
  /\ InitDevice

\* remote tier disabled: base URL or token empty
InitLocal ==
  /\ \E c \in {<<"", "token">>, <<"https://x.supabase.co", "">>} :
       supabaseUrl = c[1] /\ supabaseToken = c[2]
  /\ InitMemory
  /\ InitWorld

\* remote tier enabled
InitRemote ==
  /\ supabaseUrl = "https://x.supabase.co"
  /\ supabaseToken = "token"
  /\ InitMemory
  /\ InitWorld

\* ------------------------------------------------- fragments of handlers
\* persist()
persist ==
  storage' = Snapshot(focusMinutes', breakMinutes', mode', secondsLeft',
                      garden', history', todos')

stopTimer_keepsInterval == UNCHANGED <<timer, activeIntervals>>

\* stopTimer()
stopTimer ==
  IF timer
  THEN timer' = FALSE /\ activeIntervals' = activeIntervals - 1
  ELSE UNCHANGED <<timer, activeIntervals>>

\* syncGardenToSupabase() called with the counters g: returns without a
\* request when the tier is disabled or an upsert is already in flight
\* (pushDropped records that a sync was skipped)
syncGardenToSupabase(g) ==
  IF gardenSyncStarts(syncInProgress)
  THEN /\ syncInProgress' = TRUE
       /\ gardenUpserts' = Append(gardenUpserts, gardenRow(g))
       /\ pushDropped' = FALSE
  ELSE /\ UNCHANGED <<syncInProgress, gardenUpserts>>
       /\ pushDropped' = (supabaseEnabled \/ pushDropped)

noGardenSync == UNCHANGED <<syncInProgress, gardenUpserts, pushDropped>>

\* the push of every todo after a daily reset: syncTodoUpdateToSupabase per item
todoUpdatePushes(t) ==
  UNION {pushRequest("updateTodo", t[i]) : i \in 1..Len(t)}

\* rows of garden_history, order=completed_at.desc, limit
RECURSIVE historyRowsDesc(_, _)
historyRowsDesc(rows, limit) ==
  IF rows = {} \/ limit = 0 THEN << >>
  ELSE LET newest == CHOOSE r \in rows : \A o \in rows :
                       \/ o.completed_at < r.completed_at
                       \/ (o.completed_at = r.completed_at /\ o.id <= r.id)
       IN <<newest>> \o historyRowsDesc(rows \ {newest}, limit - 1)

\* rows of garden_todos, order=created_at.asc, limit
RECURSIVE todoRowsAsc(_, _)
todoRowsAsc(rows, limit) ==
  IF rows = {} \/ limit = 0 THEN << >>
  ELSE LET oldest == CHOOSE r \in rows : \A o \in rows :
                       \/ o.created_at > r.created_at
                       \/ (o.created_at = r.created_at /\ o.id >= r.id)
       IN <<oldest>> \o todoRowsAsc(rows \ {oldest}, limit - 1)

\* -------------------------------------------------------- timer handlers
\* a pause that left the interval in place
toggleTimer_pauseKeepsInterval ==
  /\ pc # "created"
  /\ IF running
     THEN /\ running' = FALSE
          /\ UNCHANGED <<timer, activeIntervals>>
     ELSE /\ running' = TRUE
          /\ timer' = TRUE
          /\ activeIntervals' = activeIntervals + 1
  /\ UNCHANGED <<focusMinutes, breakMinutes, mode, secondsLeft, dataVars>>
  /\ persist
  /\ UNCHANGED <<configVars, todoDay, remoteVars, netVars, today, nextId, pc,
                 dailyResetApplied, ghostVars>>

\* toggleTimer(): pause when running, start otherwise
toggleTimer ==
  /\ pc # "created"
  /\ IF running
     THEN /\ running' = FALSE
          /\ stopTimer
     ELSE /\ running' = TRUE
          /\ timer' = TRUE
          /\ activeIntervals' = activeIntervals + 1
  /\ UNCHANGED <<focusMinutes, breakMinutes, mode, secondsLeft, dataVars>>
  /\ persist
  /\ UNCHANGED <<configVars, todoDay, remoteVars, netVars, today, nextId, pc,
                 dailyResetApplied, ghostVars>>

\* the setInterval callback of toggleTimer, completion branch:
\* stopTimer(); onTimerDone() = recordCompletedSession, completeFocusSession
\* (focus only), setMode(other)
onTimerDone ==
  LET completedSessionType == mode
      duration == durationFor(mode, focusMinutes, breakMinutes)
      entry == newHistoryEntry(nextId, completedSessionType, duration, today)
      next == IF completedSessionType = "focus" THEN "break" ELSE "focus"
  IN /\ nextId <= MaxId
     /\ running' = FALSE
     /\ stopTimer
     /\ history' = recordCompletedSession(history, entry)
     /\ nextId' = nextId + 1
     /\ requests' = requests \cup pushRequest("insertHistory", entry)
     /\ IF completedSessionType = "focus"
        THEN /\ garden' = completeFocusSession(garden, today)
             /\ syncGardenToSupabase(garden')
             /\ lastSyncDay' = NoDate
        ELSE /\ UNCHANGED <<garden, lastSyncDay>>
             /\ noGardenSync
     /\ mode' = next
     /\ secondsLeft' = durationFor(next, focusMinutes, breakMinutes) * TicksPerMinute
     /\ ticks' = 0
     /\ UNCHANGED <<focusMinutes, breakMinutes, todos>>
     /\ persist
     /\ UNCHANGED <<configVars, todoDay, remoteVars, today, pc, dailyResetApplied>>

timerExpired_atZero(s) == s <= 0
timerExpired_atTwo(s) == s <= 2

\* the setInterval callback of toggleTimer: if (secondsLeft.value <= 1)
timerExpired(s) == s <= 1

\* the setInterval callback of toggleTimer
IntervalTick ==
  /\ activeIntervals > 0
  /\ IF timerExpired(secondsLeft)
     THEN onTimerDone
     ELSE /\ secondsLeft' = secondsLeft - 1
          /\ ticks' = IF ticks >= 0 THEN ticks + 1 ELSE ticks
          /\ UNCHANGED <<configVars, focusMinutes, breakMinutes, mode, running, timer,
                         activeIntervals, dataVars, localVars, remoteVars, netVars,
                         today, nextId, pc, dailyResetApplied, lastSyncDay, pushDropped>>

resetTimer_keepsSecondsLeft ==
  /\ pc # "created"
  /\ running' = FALSE
  /\ stopTimer
  /\ ticks' = -1
  /\ UNCHANGED <<focusMinutes, breakMinutes, mode, secondsLeft, dataVars>>
  /\ persist
  /\ UNCHANGED <<configVars, todoDay, remoteVars, netVars, today, nextId, pc,
                 dailyResetApplied, lastSyncDay, pushDropped>>

\* resetTimer()
resetTimer ==
  /\ pc # "created"
  /\ running' = FALSE
  /\ stopTimer
  /\ secondsLeft' = durationFor(mode, focusMinutes, breakMinutes) * TicksPerMinute
  /\ ticks' = 0
  /\ UNCHANGED <<focusMinutes, breakMinutes, mode, dataVars>>
  /\ persist
  /\ UNCHANGED <<configVars, todoDay, remoteVars, netVars, today, nextId, pc,
                 dailyResetApplied, lastSyncDay, pushDropped>>

setMode_keepsCountdown ==
  /\ pc # "created"
  /\ mode' = (IF mode = "focus" THEN "break" ELSE "focus")
  /\ ticks' = -1
  /\ UNCHANGED <<focusMinutes, breakMinutes, secondsLeft, running, timer,
                 activeIntervals, dataVars>>
  /\ persist
  /\ UNCHANGED <<configVars, todoDay, remoteVars, netVars, today, nextId, pc,
                 dailyResetApplied, lastSyncDay, pushDropped>>

\* setMode(next), the switch-mode button: setMode(mode === 'focus' ? 'break' : 'focus')
setMode ==
  LET next == IF mode = "focus" THEN "break" ELSE "focus"
  IN /\ pc # "created"
     /\ mode' = next
     /\ secondsLeft' = durationFor(next, focusMinutes, breakMinutes) * TicksPerMinute
     /\ running' = FALSE
     /\ stopTimer
     /\ ticks' = 0
     /\ UNCHANGED <<focusMinutes, breakMinutes, dataVars>>
     /\ persist
     /\ UNCHANGED <<configVars, todoDay, remoteVars, netVars, today, nextId, pc,
                    dailyResetApplied, lastSyncDay, pushDropped>>

minutesWatcher_alwaysRederives(fm, bm) ==
  /\ focusMinutes' = fm
  /\ breakMinutes' = bm
  /\ secondsLeft' = durationFor(mode, fm, bm) * TicksPerMinute
  /\ ticks' = 0
  /\ persist

\* watch([focusMinutes, breakMinutes]) run after the minutes became fm, bm
minutesWatcher(fm, bm) ==
  /\ focusMinutes' = fm
  /\ breakMinutes' = bm
  /\ IF ~running'
     THEN /\ secondsLeft' = durationFor(mode, fm, bm) * TicksPerMinute
          /\ ticks' = 0
     ELSE /\ UNCHANGED secondsLeft
          /\ ticks' = -1
  /\ persist

\* applyPreset(focus, rest): resetTimer() with the new minutes, then the watcher
applyPreset(focus, rest) ==
  /\ pc # "created"
  /\ running' = FALSE
  /\ stopTimer
  /\ UNCHANGED <<mode, dataVars>>
  /\ minutesWatcher(focus, rest)
  /\ UNCHANGED <<configVars, todoDay, remoteVars, netVars, today, nextId, pc,
                 dailyResetApplied, lastSyncDay, pushDropped>>

\* v-model.number on the Focus / Break inputs, then the watcher
editMinutes(fm, bm) ==
  /\ pc # "created"
  /\ <<fm, bm>> # <<focusMinutes, breakMinutes>>
  /\ UNCHANGED <<mode, running, timer, activeIntervals, dataVars>>
  /\ minutesWatcher(fm, bm)
  /\ UNCHANGED <<configVars, todoDay, remoteVars, netVars, today, nextId, pc,
                 dailyResetApplied, lastSyncDay, pushDropped>>

editFocusMinutes(v) == editMinutes(v, breakMinutes)
editBreakMinutes(v) == editMinutes(focusMinutes, v)

\* --------------------------------------------------------- todo handlers
addTodo_uncapped(input) ==
  LET text == Trim(input)
      item == [id |-> nextId, todoText |-> text, completed |-> FALSE, createdAt |-> today]
  IN /\ pc # "created"
     /\ IF text = << >>
        THEN UNCHANGED vars
        ELSE /\ nextId <= MaxId
             /\ todos' = Append(todos, item)
             /\ nextId' = nextId + 1
             /\ requests' = requests \cup pushRequest("insertTodo", item)
             /\ UNCHANGED <<timerVars, garden, history>>
             /\ persist
             /\ UNCHANGED <<configVars, todoDay, remoteVars, syncInProgress, gardenUpserts,
                            today, pc, dailyResetApplied, ghostVars>>

\* addTodo() with newTodoText = input
addTodo(input) ==
  LET text == Trim(input)
      item == [id |-> nextId, todoText |-> text, completed |-> FALSE, createdAt |-> today]
  IN /\ pc # "created"
     /\ IF text = << >> \/ Len(todos) >= TodoCap
        THEN UNCHANGED vars
        ELSE /\ nextId <= MaxId
             /\ todos' = Append(todos, item)
             /\ nextId' = nextId + 1
             /\ requests' = requests \cup pushRequest("insertTodo", item)
             /\ UNCHANGED <<timerVars, garden, history>>
             /\ persist
             /\ UNCHANGED <<configVars, todoDay, remoteVars, syncInProgress, gardenUpserts,
                            today, pc, dailyResetApplied, ghostVars>>

\* toggleTodo(todoId) for the item at position idx
toggleTodo(idx) ==
  LET next == [todos[idx] EXCEPT !.completed = ~todos[idx].completed]
  IN /\ pc # "created"
     /\ idx \in 1..Len(todos)
     /\ todos' = [todos EXCEPT ![idx] = next]
     /\ requests' = requests \cup pushRequest("updateTodo", next)
     /\ UNCHANGED <<timerVars, garden, history>>
     /\ persist
     /\ UNCHANGED <<configVars, todoDay, remoteVars, syncInProgress, gardenUpserts,
                    today, nextId, pc, dailyResetApplied, ghostVars>>

\* removeTodo(todoId) for the item at position idx
removeTodo(idx) ==
  /\ pc # "created"
  /\ idx \in 1..Len(todos)
  /\ todos' = SubSeq(todos, 1, idx - 1) \o SubSeq(todos, idx + 1, Len(todos))
  /\ requests' = requests \cup pushRequest("deleteTodo", todos[idx].id)
  /\ UNCHANGED <<timerVars, garden, history>>
  /\ persist
  /\ UNCHANGED <<configVars, todoDay, remoteVars, syncInProgress, gardenUpserts,
                 today, nextId, pc, dailyResetApplied, ghostVars>>

\* ------------------------------------------------------------- startup
\* onMounted after the remote pull: syncDailyCounters, syncTodoDailyReset,
\* persist, then the pushes.  g, h, t are the garden, history and todos in
\* memory at that point, dropped the push-dropped mark before the sync.
mountFinish(g, h, t, dropped) ==
  LET daily == syncDailyCounters(g, today)
      reset == syncTodoDailyReset(t, todoDay, today)
  IN /\ garden' = daily.garden
     /\ history' = h
     /\ todos' = reset.todos
     /\ todoDay' = reset.todoDay
     /\ dailyResetApplied' = daily.changed
     /\ lastSyncDay' = today
     /\ persist
     /\ IF daily.changed
        THEN syncGardenToSupabase(garden')
        ELSE /\ UNCHANGED <<syncInProgress, gardenUpserts>>
             /\ pushDropped' = dropped
     /\ requests' = requests \cup
           (IF reset.changed THEN todoUpdatePushes(reset.todos) ELSE {})
     /\ pc' = "ready"

\* onMounted up to its first await: the local load and the minutes watcher it
\* triggers; with the remote tier disabled both awaits return at once and
\* the rest of onMounted follows
onMounted ==
  LET has == storage # NoSnapshot
      fm == IF has THEN storage.focusMinutes ELSE focusMinutes
      bm == IF has THEN storage.breakMinutes ELSE breakMinutes
      m == IF has /\ storage.mode = "break" THEN "break" ELSE "focus"
      restored == IF has THEN storage.secondsLeft ELSE secondsLeft
      g == IF has THEN sanitizeGardenState(storage.garden) ELSE garden
      h == IF has THEN sanitizeHistory(storage.history) ELSE history
      t == IF has THEN sanitizeTodos(storage.todos) ELSE todos
      watcherRuns == <<fm, bm>> # <<focusMinutes, breakMinutes>>
      full == durationFor(m, fm, bm) * TicksPerMinute
  IN /\ pc = "created"
     /\ focusMinutes' = fm
     /\ breakMinutes' = bm
     /\ mode' = m
     /\ secondsLeft' = IF watcherRuns THEN full ELSE restored
     /\ ticks' = IF secondsLeft' = full THEN 0 ELSE -1
     /\ UNCHANGED <<running, timer, activeIntervals>>
     /\ IF supabaseEnabled
        THEN /\ garden' = g
             /\ history' = h
             /\ todos' = t
             /\ IF watcherRuns THEN persist ELSE UNCHANGED storage
             /\ pc' = "setup"
             /\ UNCHANGED <<todoDay, netVars, dailyResetApplied, lastSyncDay, pushDropped>>
        ELSE mountFinish(g, h, t, pushDropped)
     /\ UNCHANGED <<configVars, remoteVars, today, nextId>>

\* ensureSupabaseTable(): POST /api/supabase/setup settles; its result is ignored
ensureSupabaseTable ==
  /\ pc = "setup"
  /\ pc' = "loading"
  /\ UNCHANGED <<configVars, timerVars, dataVars, localVars, remoteVars, netVars,
                 today, nextId, dailyResetApplied, ghostVars>>

\* loadFromSupabase() resolves with the three reads, and onMounted goes on
loadFromSupabaseOk ==
  LET historyRows == historyRowsDesc(remoteHistory, RemoteHistoryLimit)
      todoRows == todoRowsAsc(remoteTodos, TodoCap)
      remoteH == sanitizeHistory([i \in 1..Len(historyRows) |-> historyFromRow(historyRows[i])])
      remoteT == sanitizeTodos([i \in 1..Len(todoRows) |-> todoFromRow(todoRows[i])])
      g == IF remoteGarden # NoRow THEN gardenFromRow(remoteGarden) ELSE garden
  IN /\ pc = "loading"
     /\ UNCHANGED <<configVars, timerVars, remoteVars, today, nextId, ticks>>
     /\ mountFinish(g, remoteH, remoteT, IF remoteGarden # NoRow THEN FALSE ELSE pushDropped)

\* a rejected read that escaped loadFromSupabase would end onMounted there
loadFromSupabaseFail_throws ==
  /\ pc = "loading"
  /\ pc' = "ready"
  /\ UNCHANGED <<configVars, timerVars, dataVars, localVars, remoteVars, netVars,
                 today, nextId, dailyResetApplied, ghostVars>>

\* loadFromSupabase() catches a failed read and returns null
loadFromSupabaseFail ==
  /\ pc = "loading"
  /\ UNCHANGED <<configVars, timerVars, remoteVars, today, nextId, ticks>>
  /\ mountFinish(garden, history, todos, pushDropped)

\* the page is closed and opened again: script setup runs anew, pending
\* fetches are aborted, localStorage and the backend keep their contents
Reload ==
  /\ pc # "created"
  /\ focusMinutes' = DefaultFocusMinutes
  /\ breakMinutes' = DefaultBreakMinutes
  /\ mode' = "focus"
  /\ secondsLeft' = DefaultFocusMinutes * TicksPerMinute
  /\ running' = FALSE
  /\ timer' = FALSE
  /\ activeIntervals' = 0
  /\ syncInProgress' = FALSE
  /\ garden' = EmptyGarden
  /\ history' = << >>
  /\ todos' = << >>
  /\ pc' = "created"
  /\ dailyResetApplied' = FALSE
  /\ gardenUpserts' = << >>
  /\ requests' = {}
  /\ ticks' = 0
  /\ UNCHANGED <<configVars, localVars, remoteVars, today, nextId, lastSyncDay, pushDropped>>

\* the device-local date moves to the next day
DayChange ==
  /\ today < MaxDay
  /\ today' = today + 1
  /\ UNCHANGED <<configVars, timerVars, dataVars, localVars, remoteVars, netVars,
                 nextId, pc, dailyResetApplied, ghostVars>>

\* ----------------------------------------------------- remote requests
RemoveAt(s, i) == SubSeq(s, 1, i - 1) \o SubSeq(s, i + 1, Len(s))

\* upsertGarden resolves: the row is merged, finally clears syncInProgress
upsertGardenOk ==
  /\ \E i \in 1..Len(gardenUpserts) :
       /\ remoteGarden' = gardenUpserts[i]
       /\ gardenUpserts' = RemoveAt(gardenUpserts, i)
  /\ syncInProgress' = FALSE
  /\ UNCHANGED <<configVars, timerVars, dataVars, localVars, remoteHistory, remoteTodos,
                 requests, today, nextId, pc, dailyResetApplied, ghostVars>>

\* upsertGarden rejects: caught and logged, finally clears syncInProgress
upsertGardenFail ==
  /\ \E i \in 1..Len(gardenUpserts) :
       gardenUpserts' = RemoveAt(gardenUpserts, i)
  /\ syncInProgress' = FALSE
  /\ UNCHANGED <<configVars, timerVars, dataVars, localVars, remoteVars,
                 requests, today, nextId, pc, dailyResetApplied, ghostVars>>

\* insertHistory / insertTodo / updateTodo / deleteTodo resolves
requestOk ==
  \E r \in requests :
    /\ requests' = requests \ {r}
    /\ remoteHistory' = IF r.kind = "insertHistory"
                        THEN remoteHistory \cup {historyRow(r.payload)} ELSE remoteHistory
    /\ remoteTodos' =
         CASE r.kind = "insertTodo" -> remoteTodos \cup {todoRow(r.payload)}
           [] r.kind = "updateTodo" ->
                {IF row.id = r.payload.id
                 THEN [row EXCEPT !.todo_text = r.payload.todoText,
                                  !.completed = r.payload.completed]
                 ELSE row : row \in remoteTodos}
           [] r.kind = "deleteTodo" -> {row \in remoteTodos : row.id # r.payload}
           [] OTHER -> remoteTodos
    /\ UNCHANGED <<configVars, timerVars, dataVars, localVars, remoteGarden,
                   syncInProgress, gardenUpserts, today, nextId, pc,
                   dailyResetApplied, ghostVars>>

\* insertHistory / insertTodo / updateTodo / deleteTodo rejects: caught and logged
requestFail ==
  \E r \in requests :
    /\ requests' = requests \ {r}
    /\ UNCHANGED <<configVars, timerVars, dataVars, localVars, remoteVars,
                   syncInProgress, gardenUpserts, today, nextId, pc,
                   dailyResetApplied, ghostVars>>

\* ------------------------------------------------------- specifications
\* nuxt.config.ts as shipped: no base URL and no public token
InitOffline ==
  /\ supabaseUrl = ""
  /\ supabaseToken = ""
  /\ InitMemory
  /\ InitWorld

TimerOps ==
  \/ toggleTimer
  \/ resetTimer
  \/ setMode
  \/ \E v \in MinuteInputs : editFocusMinutes(v)
  \/ \E v \in MinuteInputs : editBreakMinutes(v)

TodoOps ==
  \/ \E input \in TodoTexts : addTodo(input)
  \/ \E idx \in 1..TodoCap : toggleTodo(idx)
  \/ \E idx \in 1..TodoCap : removeTodo(idx)

\* the session state machine with its local snapshot, remote tier disabled
NextTimer ==
  \/ onMounted
  \/ IntervalTick
  \/ TimerOps
  \/ Reload

SpecTimer == InitOffline /\ [][NextTimer]_vars

\* focus sessions over several days, remote tier disabled
NextGarden ==
  \/ onMounted
  \/ IntervalTick
  \/ toggleTimer
  \/ setMode
  \/ DayChange
  \/ Reload

SpecGarden == InitOffline /\ [][NextGarden]_vars

\* every local operation with the remote tier disabled
NextLocal ==
  \/ onMounted
  \/ IntervalTick
  \/ toggleTimer
  \/ TodoOps
  \/ DayChange
  \/ Reload

SpecLocal == InitLocal /\ [][NextLocal]_vars

\* the remote tier enabled; every request may succeed or fail
NextRemote ==
  \/ onMounted
  \/ ensureSupabaseTable
  \/ loadFromSupabaseOk
  \/ loadFromSupabaseFail
  \/ IntervalTick
  \/ toggleTimer
  \/ DayChange
  \/ Reload
  \/ upsertGardenOk
  \/ upsertGardenFail
  \/ requestOk
  \/ requestFail

SpecRemote == InitRemote /\ [][NextRemote]_vars

\* the page is closed while no request is outstanding
ReloadQuiet ==
  /\ pc = "ready"
  /\ gardenUpserts = << >>
  /\ requests = {}
  /\ Reload

\* the remote tier enabled and reliable: every request eventually succeeds
NextReliable ==
  \/ onMounted
  \/ ensureSupabaseTable
  \/ loadFromSupabaseOk
  \/ IntervalTick
  \/ toggleTimer
  \/ DayChange
  \/ ReloadQuiet
  \/ upsertGardenOk
  \/ requestOk

SpecReliable ==
  /\ InitRemote
  /\ [][NextReliable]_vars
  /\ WF_vars(ensureSupabaseTable)
  /\ WF_vars(loadFromSupabaseOk)
  /\ WF_vars(upsertGardenOk)
  /\ WF_vars(requestOk)

\* one sitting with every control of the page: start / pause, reset, switch
\* mode, the 25/5 preset, the default break length typed into the Break input,
\* and the todo list; remote tier disabled
NextSession ==
  \/ onMounted
  \/ IntervalTick
  \/ toggleTimer
  \/ resetTimer
  \/ setMode
  \/ applyPreset(25, 5)
  \/ editBreakMinutes(DefaultBreakMinutes)
  \/ TodoOps

SpecSession == InitOffline /\ [][NextSession]_vars

\* the snapshot left by long use: a log of n alternating sessions, newest
\* first, the last one a break, all completed on day 1
PastEntry(i) ==
  [id |-> 0 - i,
   sessionType |-> IF i % 2 = 1 THEN "break" ELSE "focus",
   durationMinutes |-> IF i % 2 = 1 THEN FirstBreakMinutes ELSE FirstFocusMinutes,
   completedAt |-> 1]

LongUseSnapshot(n) ==
  Snapshot(FirstFocusMinutes, FirstBreakMinutes, "focus",
           FirstFocusMinutes * TicksPerMinute,
           [totalSessions |-> n \div 2, sessionsToday |-> n \div 2,
            streakDays |-> 1, lastSessionDate |-> 1],
           [i \in 1..n |-> PastEntry(i)], << >>)

InitLongUse ==
  /\ supabaseUrl = ""
  /\ supabaseToken = ""
  /\ InitMemory
  /\ \E n \in (HistoryCap - 2)..HistoryCap : storage = LongUseSnapshot(n)
  /\ InitDevice

\* sessions completed on top of a log at or just under the cap
NextHistory ==
  \/ onMounted
  \/ IntervalTick
  \/ toggleTimer
  \/ setMode
  \/ Reload

SpecHistory == InitLongUse /\ [][NextHistory]_vars

\* snapshots found at startup: any garden with small non-negative counters
\* and any log of up to MaxSnapshotLog entries, each with a known or unknown
\* session type and a timestamp, an empty string or no string as completedAt
SnapshotGardens ==
  [totalSessions : 0..1, sessionsToday : 0..1, streakDays : 0..1,
   lastSessionDate : {NoDate, 1}]

SnapshotEntries(i) ==
  {[id |-> 0 - i, sessionType |-> type, durationMinutes |-> FirstFocusMinutes,
    completedAt |-> at] :
     type \in {"focus", "break", "nap"}, at \in {1, EmptyText, NoDate}}

SnapshotLogs ==
  UNION {{h \in [1..n -> UNION {SnapshotEntries(i) : i \in 1..n}] :
            \A i \in 1..n : h[i] \in SnapshotEntries(i)} : n \in 0..MaxSnapshotLog}

InitSnapshots ==
  /\ supabaseUrl = ""
  /\ supabaseToken = ""
  /\ InitMemory
  /\ \E g \in SnapshotGardens, h \in SnapshotLogs :
       storage = Snapshot(FirstFocusMinutes, FirstBreakMinutes, "focus",
                          FirstFocusMinutes * TicksPerMinute, g, h, << >>)
  /\ InitDevice

\* startup on such a snapshot, sessions completed on top of it, reopening
NextRoundTrip ==
  \/ onMounted
  \/ IntervalTick
  \/ toggleTimer
  \/ Reload

SpecRoundTrip == InitSnapshots /\ [][NextRoundTrip]_vars

\* logs found at startup after several days of use: up to MaxStatLog focus
\* and break entries completed on days 1..MaxStatDay, newest first
StatEntry(i, type, day) ==
  [id |-> 0 - i, sessionType |-> type, durationMinutes |-> FirstFocusMinutes,
   completedAt |-> day]

StatLogs ==
  UNION {{[i \in 1..n |-> StatEntry(i, types[i], days[i])] :
            types \in [1..n -> {"focus", "break"}],
            days \in {d \in [1..n -> 1..MaxStatDay] :
                       \A i \in 1..(n - 1) : d[i] >= d[i + 1]}} :
         n \in 0..MaxStatLog}

InitStats ==
  /\ supabaseUrl = ""
  /\ supabaseToken = ""
  /\ InitMemory
  /\ \E h \in StatLogs :
       storage = Snapshot(FirstFocusMinutes, FirstBreakMinutes, "focus",
                          FirstFocusMinutes * TicksPerMinute, EmptyGarden, h, << >>)
  /\ todoDay = NoDate
  /\ today = MaxStatDay
  /\ nextId = 1
  /\ remoteGarden = NoRow
  /\ remoteHistory = {}
  /\ remoteTodos = {}
  /\ gardenUpserts = << >>
  /\ requests = {}
  /\ ticks = 0
  /\ lastSyncDay = NoDate
  /\ pushDropped = FALSE

\* the statistics panel over such a log and the sessions completed on top
NextStats ==
  \/ onMounted
  \/ IntervalTick
  \/ toggleTimer
  \/ Reload

SpecStats == InitStats /\ [][NextStats]_vars

\* todo edits made while fewer than MaxPending pushes are outstanding
TodoOpsPaced ==
  /\ Cardinality(requests) < MaxPending
  /\ TodoOps

\* todo edits made while no push is outstanding
TodoOpsQuiet ==
  /\ requests = {}
  /\ TodoOps

\* todos of an earlier visit, all added on day 1 and pushed to the backend;
\* the backend may still hold the row of one more todo whose delete failed
PastTodo(i) ==
  [id |-> 0 - i, todoText |-> <<"a">>, completed |-> FALSE, createdAt |-> 1]

InitTodos ==
  /\ supabaseUrl = "https://x.supabase.co"
  /\ supabaseToken = "token"
  /\ InitMemory
  /\ \E k \in 0..TodoCap, stale \in SUBSET {todoRow(PastTodo(TodoCap + 1))} :
       /\ storage = Snapshot(FirstFocusMinutes, FirstBreakMinutes, "focus",
                             FirstFocusMinutes * TicksPerMinute, EmptyGarden, << >>,
                             [i \in 1..k |-> PastTodo(i)])
       /\ remoteTodos = {todoRow(PastTodo(i)) : i \in 1..k} \cup stale
  /\ todoDay = 1
  /\ today = 1
  /\ nextId = 1
  /\ remoteGarden = NoRow
  /\ remoteHistory = {}
  /\ gardenUpserts = << >>
  /\ requests = {}
  /\ ticks = 0
  /\ lastSyncDay = NoDate
  /\ pushDropped = FALSE

\* the todo list with the remote tier enabled and every request succeeding
NextTodos ==
  \/ onMounted
  \/ ensureSupabaseTable
  \/ loadFromSupabaseOk
  \/ TodoOpsQuiet
  \/ requestOk
  \/ ReloadQuiet

SpecTodos == InitTodos /\ [][NextTodos]_vars

\* the remote tier enabled with no backend connectivity: every request fails
NextOutage ==
  \/ onMounted
  \/ ensureSupabaseTable
  \/ loadFromSupabaseFail
  \/ IntervalTick
  \/ toggleTimer
  \/ TodoOpsPaced
  \/ DayChange
  \/ Reload
  \/ upsertGardenFail
  \/ requestFail

SpecOutage == InitRemote /\ [][NextOutage]_vars

\* an earlier visit on day 1 left at most one todo, completed or not, in the
\* snapshot, and the backend holds the row of another todo
InitReadOutage ==
  /\ supabaseUrl = "https://x.supabase.co"
  /\ supabaseToken = "token"
  /\ InitMemory
  /\ \E t \in {<< >>, <<PastTodo(1)>>, <<[PastTodo(1) EXCEPT !.completed = TRUE]>>} :
       storage = Snapshot(FirstFocusMinutes, FirstBreakMinutes, "focus",
                          FirstFocusMinutes * TicksPerMinute, EmptyGarden, << >>, t)
  /\ remoteTodos = {todoRow(PastTodo(2))}
  /\ todoDay = 1
  /\ today = 1
  /\ nextId = 1
  /\ remoteGarden = NoRow
  /\ remoteHistory = {}
  /\ gardenUpserts = << >>
  /\ requests = {}
  /\ ticks = 0
  /\ lastSyncDay = NoDate
  /\ pushDropped = FALSE

\* the remote tier enabled, writes getting through or not, while every
\* startup pull has one of its three reads failing
NextReadOutage ==
  \/ onMounted
  \/ ensureSupabaseTable
  \/ loadFromSupabaseFail
  \/ IntervalTick
  \/ toggleTimer
  \/ DayChange
  \/ Reload
  \/ upsertGardenOk
  \/ upsertGardenFail
  \/ requestOk
  \/ requestFail

SpecReadOutage == InitReadOutage /\ [][NextReadOutage]_vars

\* ------------------------------------------------------------ properties
\* a step in which a countdown completes: the interval callback took its
\* completion branch and recorded a history entry under a fresh id
CompletionStep ==
  /\ pc' = pc
  /\ nextId' = nextId + 1
  /\ history' # history

FocusCompletionStep == CompletionStep /\ mode = "focus"

\* a step in which the interval callback only counted down
DecrementStep ==
  /\ running /\ running'
  /\ secondsLeft' # secondsLeft

\* onMounted ran to its end with the remote tier disabled
LocalMountStep == pc = "created" /\ pc' = "ready"

MemorySnapshot ==
  Snapshot(focusMinutes, breakMinutes, mode, secondsLeft, garden, history, todos)

\* C1: a countdown loaded at durationFor(mode) * 60 >= 60 completes on exactly
\* its (durationFor(mode) * 60)-th tick; on that tick one history entry is put
\* at the head of the log with the counting mode and its configured minutes,
\* and the mode flips; no earlier tick completes, records or flips anything.
C1_CompletesOnLastTick ==
  [][ LET d == durationFor(mode, focusMinutes, breakMinutes)
      IN (ticks >= 0 /\ d >= 1) =>
           /\ CompletionStep =>
                /\ ticks + 1 = d * TicksPerMinute
                /\ Len(history') = Len(history) + 1
                /\ Tail(history') = history
                /\ Head(history').sessionType = mode
                /\ Head(history').durationMinutes = d
                /\ mode' # mode
           /\ DecrementStep =>
                /\ ticks + 1 < d * TicksPerMinute
                /\ UNCHANGED <<mode, history, garden>> ]_vars

\* a two-minute focus countdown ran from full to completion
C1_Witness ==
  /\ history # << >>
  /\ Head(history).sessionType = "focus"
  /\ Head(history).durationMinutes = FirstFocusMinutes
  /\ mode = "break"
  /\ ticks = 0

\* C2 as stated: the completion branch is taken only on a tick delivered
\* when secondsLeft = 0.
C2_CompletesAtZero ==
  [][CompletionStep => secondsLeft = 0]_vars

\* C2 amended: the completion branch is taken only on a tick delivered when
\* secondsLeft <= 1; a tick decrements by exactly 1 only while secondsLeft > 1,
\* so a countdown loaded with a positive duration never shows secondsLeft = 0.
C2_CompletesAtOne ==
  [][ /\ CompletionStep => secondsLeft <= 1
      /\ DecrementStep => (secondsLeft > 1 /\ secondsLeft' = secondsLeft - 1)
      /\ (ticks' >= 0 /\ durationFor(mode', focusMinutes', breakMinutes') >= 1)
           => secondsLeft' >= 1 ]_vars

\* a running countdown that has been decremented to 1 and is about to complete
C2_Witness ==
  /\ running
  /\ secondsLeft = 1
  /\ ticks >= 1

\* C7 as stated: once the app is mounted the local snapshot equals the
\* in-memory minutes, mode, secondsLeft, garden, history and todos.
C7_SnapshotFollowsMemory ==
  pc = "ready" => storage = MemorySnapshot

\* the focus entries of a log completed on a given day
FocusEntriesOn(h, day) ==
  {i \in 1..Len(h) : h[i].sessionType = "focus" /\ h[i].completedAt = day}

\* C3 as stated: with lastSessionDate on an earlier day, the first
\* syncDailyCounters of a day zeroes sessionsToday and returns true; a second
\* call on the same day with no focus completion in between returns false
\* and leaves the counters as persisted.
C3_SecondSyncReportsUnchanged ==
  [][ (LocalMountStep /\ storage.garden.lastSessionDate \notin {NoDate, today}) =>
        IF lastSyncDay # today
        THEN dailyResetApplied' /\ garden'.sessionsToday = 0
        ELSE ~dailyResetApplied' /\ garden' = storage.garden ]_vars

\* C4 as stated: after a focus completion sessionsToday is the number of
\* focus sessions completed on the day of that completion.
C4_SessionsTodayCountsToday ==
  [][ FocusCompletionStep =>
        garden'.sessionsToday = Cardinality(FocusEntriesOn(history', today)) ]_vars

\* C6: completeFocusSession sets streakDays to 1 when there is no earlier
\* date, leaves it when the last date is today, adds 1 when the last date is
\* the day before, sets it to 1 when the last date is two or more days back,
\* and always sets lastSessionDate to today; the first version of
\* completeFocusSession gives the same streak in these four cases.
C6_StreakRule ==
  [][ FocusCompletionStep =>
        LET last == garden.lastSessionDate
        IN /\ garden'.lastSessionDate = today
           /\ last = NoDate => garden'.streakDays = 1
           /\ (last # NoDate /\ last = today) => garden'.streakDays = garden.streakDays
           /\ (last # NoDate /\ today - last = 1) =>
                garden'.streakDays = garden.streakDays + 1
           /\ (last # NoDate /\ today - last >= 2) => garden'.streakDays = 1
           /\ (last = NoDate \/ today - last >= 0) =>
                streakAfterFirstVersion(garden, today) = garden'.streakDays ]_vars

\* a streak of two days was broken by a gap of a day and restarted at 1
C6_Witness ==
  /\ garden.totalSessions = 3
  /\ garden.streakDays = 1
  /\ garden.lastSessionDate = 3
  /\ \E i \in 1..Len(history) : history[i].sessionType = "focus" /\ history[i].completedAt = 1

\* C5 as stated: no operation makes totalSessions smaller than it was (the
\* fresh refs of a reopened page, which onMounted fills at once, left aside).
C5_TotalSessionsNeverDecreases ==
  [][pc' # "created" => garden'.totalSessions >= garden.totalSessions]_vars

\* a garden upsert settles (the page stays open)
UpsertSettles ==
  /\ pc' # "created"
  /\ Len(gardenUpserts') < Len(gardenUpserts)

\* C8: at most one garden upsert is in flight; an upsert is issued only when
\* none is in flight and syncInProgress is clear; syncInProgress is set exactly
\* while one is in flight and is cleared when it settles, on success or failure.
C8_SingleUpsertInFlight ==
  /\ [](Len(gardenUpserts) <= 1 /\ (syncInProgress <=> gardenUpserts # << >>))
  /\ [][ /\ Len(gardenUpserts') > Len(gardenUpserts) =>
              (gardenUpserts = << >> /\ ~syncInProgress /\ syncInProgress')
         /\ UpsertSettles => ~syncInProgress' ]_vars

\* a garden sync was attempted while an upsert was in flight, and was dropped
C8_Witness ==
  /\ Len(gardenUpserts) = 1
  /\ syncInProgress
  /\ pushDropped
  /\ gardenFromRow(gardenUpserts[1]) # garden

\* the remote garden row holds the local counters (no row: nothing credited yet)
RemoteMirrorsLocal ==
  IF remoteGarden = NoRow THEN garden = EmptyGarden
  ELSE gardenFromRow(remoteGarden) = garden

\* startup is over and no garden upsert is outstanding
Quiescent ==
  /\ pc = "ready"
  /\ gardenUpserts = << >>

\* C9 as stated, for a user who stops at this state: with every request
\* succeeding, once startup is over and no upsert is outstanding nothing
\* further will change, so the remote row must already equal the local
\* GardenState.
C9_RemoteEqualsLocalWhenQuiet ==
  Quiescent => RemoteMirrorsLocal

\* the configuration of the claim: base URL or token empty
RemoteDisabled == supabaseUrl = "" \/ supabaseToken = ""

\* C10: with the base URL or the token empty no remote request is ever
\* issued (no provisioning, load, upsert, insert, update or delete) and the
\* backend is never written, while startup, completion with its history
\* entry, the daily reset and todo add / toggle / remove take their local
\* effect and write the local snapshot.
C10_DisabledRemoteStaysLocal ==
  /\ [](RemoteDisabled =>
          /\ gardenUpserts = << >> /\ requests = {} /\ ~syncInProgress
          /\ pc \notin {"setup", "loading"}
          /\ remoteGarden = NoRow /\ remoteHistory = {} /\ remoteTodos = {})
  /\ [][ RemoteDisabled =>
          /\ (CompletionStep \/ LocalMountStep \/ (pc' = pc /\ todos' # todos)) =>
               storage' = Snapshot(focusMinutes', breakMinutes', mode', secondsLeft',
                                   garden', history', todos')
          /\ CompletionStep => Len(history') = Len(history) + 1
          /\ FocusCompletionStep => garden'.totalSessions = garden.totalSessions + 1
          /\ (pc = "created" /\ pc' # pc) => pc' = "ready" ]_vars

\* with a base URL but no token: a session was completed, a todo added and
\* completed, and a daily reset applied at a later startup
C10_Witness ==
  /\ supabaseUrl # "" /\ supabaseToken = ""
  /\ pc = "ready"
  /\ dailyResetApplied
  /\ history # << >>
  /\ todos # << >>
  /\ storage = MemorySnapshot

\* a history insert or a todo insert / update / delete settles
RequestSettles ==
  /\ pc' = pc
  /\ requests' # requests
  /\ requests' \subseteq requests

\* the provisioning call settles
SetupSettles == pc = "setup" /\ pc' = "loading"

\* the remote pull settles and onMounted runs to its end
LoadSettles == pc = "loading" /\ pc' = "ready"

\* a todo is added, toggled or removed
TodoStep == pc' = pc /\ todos' # todos

\* C11: with every remote operation failing, a failed provisioning, garden
\* upsert, history insert or todo insert / update / delete changes no timer
\* state, garden, history, todos or local snapshot; a failed load lets startup
\* finish on the data in memory exactly as the local startup does; and every
\* completion and todo edit has the effect it has with the remote tier absent.
C11_RemoteFailureSwallowed ==
  [][ /\ (UpsertSettles \/ RequestSettles \/ SetupSettles) =>
            UNCHANGED <<timerVars, dataVars, localVars>>
      /\ LoadSettles =>
            /\ garden' = syncDailyCounters(garden, today).garden
            /\ history' = history
            /\ todos' = syncTodoDailyReset(todos, todoDay, today).todos
            /\ todoDay' = today
            /\ storage' = MemorySnapshot'
            /\ UNCHANGED timerVars
      /\ CompletionStep =>
            /\ history' = recordCompletedSession(history,
                   newHistoryEntry(nextId, mode,
                      durationFor(mode, focusMinutes, breakMinutes), today))
            /\ garden' = IF mode = "focus" THEN completeFocusSession(garden, today)
                         ELSE garden
            /\ storage' = MemorySnapshot'
      /\ TodoStep => storage' = MemorySnapshot' ]_vars

\* after a credited session whose pushes failed, a later startup with a failed
\* load applied the daily reset and its upsert failed as well
C11_Witness ==
  /\ supabaseEnabled
  /\ pc = "ready"
  /\ dailyResetApplied
  /\ garden.totalSessions >= 1
  /\ gardenUpserts = << >> /\ requests = {}
  /\ remoteGarden = NoRow /\ remoteHistory = {}
  /\ storage = MemorySnapshot

\* what the remote pull returns for history and todos
RemoteHistoryLoaded ==
  LET rows == historyRowsDesc(remoteHistory, RemoteHistoryLimit)
  IN sanitizeHistory([i \in 1..Len(rows) |-> historyFromRow(rows[i])])

RemoteTodosLoaded ==
  LET rows == todoRowsAsc(remoteTodos, TodoCap)
  IN sanitizeTodos([i \in 1..Len(rows) |-> todoFromRow(rows[i])])

\* C12 as stated: when the remote pull succeeds, each of garden, history and
\* todos is replaced by the remote data if the remote returned any for it, and
\* keeps the value loaded locally if the remote returned none (the daily
\* resets that follow in onMounted applied to either).
C12_RemoteWinsOnlyWherePresent ==
  [][ LoadSettles =>
        /\ garden' = syncDailyCounters(
                        IF remoteGarden = NoRow THEN garden
                        ELSE gardenFromRow(remoteGarden), today).garden
        /\ history' = IF remoteHistory = {} THEN history ELSE RemoteHistoryLoaded
        /\ todos' = syncTodoDailyReset(
                        IF remoteTodos = {} THEN todos ELSE RemoteTodosLoaded,
                        todoDay, today).todos ]_vars

\* C13: each completed focus countdown adds exactly 1 to totalSessions and to
\* sessionsToday and leaves no interval behind to credit it again; break
\* completion, switch mode, reset, start, pause, preset, duration edits and
\* todo edits leave totalSessions, streakDays and lastSessionDate unchanged.
C13_CreditedOncePerFocus ==
  [][ /\ FocusCompletionStep =>
            /\ garden'.totalSessions = garden.totalSessions + 1
            /\ garden'.sessionsToday = garden.sessionsToday + 1
            /\ ~running' /\ activeIntervals' = 0
      /\ (pc' = pc /\ ~FocusCompletionStep) =>
            /\ garden'.totalSessions = garden.totalSessions
            /\ garden'.streakDays = garden.streakDays
            /\ garden'.lastSessionDate = garden.lastSessionDate ]_vars

\* one focus session credited, the break after it completed, then the 25/5
\* preset applied and a todo added
C13_Witness ==
  /\ garden.totalSessions = 1
  /\ Len(history) = 2
  /\ Head(history).sessionType = "break"
  /\ focusMinutes = 25 /\ breakMinutes = 5
  /\ todos # << >>

\* the countdown length of the mode and minutes of the next state
FullNext ==
  durationFor(mode', focusMinutes', breakMinutes') * TicksPerMinute

\* a step taken while paused that is no start, edit, switch or reload
PausedStep ==
  /\ ~running /\ ~running'
  /\ pc' = pc
  /\ UNCHANGED <<mode, focusMinutes, breakMinutes>>

\* C14: an interval callback exists exactly while the timer is running, so
\* after pause, reset, switch mode or completion none is left to fire; the
\* callback only ever runs while running, and while paused secondsLeft moves
\* only by a reset and mode, garden and history do not move at all.
C14_NoTickAfterCancel ==
  /\ [](activeIntervals = (IF running THEN 1 ELSE 0) /\ (timer <=> running))
  /\ [][ /\ IntervalTick => running
         /\ PausedStep =>
              /\ secondsLeft' \in {secondsLeft, FullNext}
              /\ UNCHANGED <<garden, history>> ]_vars

\* the timer was paused in the middle of a countdown
C14_Witness ==
  /\ pc = "ready"
  /\ ~running /\ ~timer /\ activeIntervals = 0
  /\ ticks >= 1
  /\ secondsLeft < durationFor(mode, focusMinutes, breakMinutes) * TicksPerMinute

\* the switch-mode button took effect: the mode flipped with no completion
SwitchStep ==
  /\ pc' = pc
  /\ mode' # mode
  /\ nextId' = nextId

\* C15: switch mode is available in every state of the mounted page; it
\* flips the mode, stops the countdown, loads secondsLeft with the length of
\* the new mode, and leaves history, garden and the minutes unchanged.
C15_SwitchModeResets ==
  /\ [](pc # "created" => ENABLED setMode)
  /\ [][ SwitchStep =>
              /\ ~running' /\ ~timer' /\ activeIntervals' = 0
              /\ secondsLeft' = FullNext
              /\ UNCHANGED <<history, garden, focusMinutes, breakMinutes>> ]_vars

\* the mode was switched to break with no session ever completed
C15_Witness ==
  /\ pc = "ready"
  /\ mode = "break"
  /\ history = << >>
  /\ ~running
  /\ secondsLeft = breakMinutes * TicksPerMinute

\* C16: reset is available in every state of the mounted page and leaves the
\* timer paused with secondsLeft at the length of the unchanged mode, and
\* mode, focusMinutes, breakMinutes, garden and history unchanged.
C16_ResetRestoresDuration ==
  /\ [](pc # "created" => ENABLED resetTimer)
  /\ [][ resetTimer =>
              /\ ~running' /\ ~timer' /\ activeIntervals' = 0
              /\ secondsLeft' = durationFor(mode, focusMinutes, breakMinutes) * TicksPerMinute
              /\ UNCHANGED <<mode, focusMinutes, breakMinutes, garden, history>> ]_vars

\* a break countdown, entered by completing a focus session, stands paused
\* at its full length with the snapshot agreeing
C16_Witness ==
  /\ pc = "ready"
  /\ mode = "break"
  /\ history # << >>
  /\ ~running
  /\ ticks = 0
  /\ secondsLeft = breakMinutes * TicksPerMinute
  /\ storage = MemorySnapshot

\* C17 as stated: whenever the minutes change while the page is open (typed
\* input, preset, startup load) focusMinutes ends in [5,180] and breakMinutes
\* in [1,60].
C17_MinutesWithinBounds ==
  [][ (pc' # "created" /\ <<focusMinutes', breakMinutes'>> # <<focusMinutes, breakMinutes>>) =>
        /\ focusMinutes' \in MinFocusMinutes..MaxFocusMinutes
        /\ breakMinutes' \in MinBreakMinutes..MaxBreakMinutes ]_vars

\* a value typed into the Focus or Break input took effect
EditStep ==
  /\ pc' = pc
  /\ <<focusMinutes', breakMinutes'>> # <<focusMinutes, breakMinutes>>

C19_HistoryCappedNewestFirst ==
  /\ [](/\ Len(history) <= HistoryCap
        /\ \A i \in 1..(Len(history) - 1) : history[i].id > history[i + 1].id)
  /\ [][ CompletionStep =>
              /\ Head(history').id = nextId
              /\ Head(history').sessionType = mode
              /\ IF Len(history) < HistoryCap
                 THEN Tail(history') = history
                 ELSE /\ Len(history') = HistoryCap
                      /\ Tail(history') = SubSeq(history, 1, HistoryCap - 1) ]_vars

\* two sessions were recorded on a log that was full for at least one of
\* them: 100 entries, the two new ones at the head, the oldest gone
C19_Witness ==
  /\ Len(history) = HistoryCap
  /\ Head(history).id = 2
  /\ history[2].id = 1
  /\ history[HistoryCap].id = 0 - (HistoryCap - 2)

\* the entries the claim keeps: type focus or break, completedAt a string
HasStringTimestamp(e) ==
  /\ e.sessionType \in {"focus", "break"}
  /\ e.completedAt # NoDate

\* type focus or break, completedAt a string that is not empty
HasNonEmptyTimestamp(e) ==
  /\ e.sessionType \in {"focus", "break"}
  /\ e.completedAt # NoDate
  /\ e.completedAt # EmptyText

\* C20 as stated: the startup local load of a persisted snapshot gives the
\* persisted GardenState (the daily-counter sync that follows in onMounted
\* applied to it) and, in order, exactly the history entries whose
\* sessionType is focus or break and whose completedAt is a string.
C20_RoundTripKeepsStringTimestamps ==
  [][ LocalMountStep =>
        /\ garden' = syncDailyCounters(storage.garden, today).garden
        /\ history' = SelectSeq(storage.history, HasStringTimestamp) ]_vars

\* C20 amended: as above, the history entries kept being exactly those whose
\* sessionType is focus or break and whose completedAt is a non-empty
\* string; the others are dropped without discarding the rest or the garden.
C20_RoundTripKeepsNonEmptyTimestamps ==
  [][ LocalMountStep =>
        /\ garden' = syncDailyCounters(storage.garden, today).garden
        /\ history' = SelectSeq(storage.history, HasNonEmptyTimestamp) ]_vars

\* a snapshot of two entries was loaded: the first was dropped, the second
\* and the garden were kept
C20_Witness ==
  /\ pc = "ready"
  /\ Len(history) = 1
  /\ Head(history).id = 0 - 2
  /\ garden.totalSessions = 1
  /\ storage = MemorySnapshot

\* C21 as stated: after a startup on a snapshot persisted while paused in the
\* middle of a countdown, whatever its focusMinutes and breakMinutes, mode
\* and secondsLeft are the persisted ones and the timer is paused.
C21_TimerRestoredFromSnapshot ==
  [][ ( /\ LocalMountStep
        /\ storage.secondsLeft >= 1
        /\ storage.secondsLeft <
             durationFor(storage.mode, storage.focusMinutes, storage.breakMinutes)
               * TicksPerMinute ) =>
        /\ mode' = storage.mode
        /\ secondsLeft' = storage.secondsLeft
        /\ ~running' ]_vars

\* C22: the todo list never holds more than 3 items, through add, toggle,
\* remove, the startup local load and the startup remote pull; an item is
\* added, and an insert pushed, only when fewer than 3 items are present and
\* the trimmed text is not empty.
C22_TodosCappedAtThree ==
  /\ [](Len(todos) <= TodoCap)
  /\ [][ /\ (pc' = pc /\ Len(todos') > Len(todos)) =>
              /\ Len(todos) < TodoCap
              /\ Len(todos') = Len(todos) + 1
              /\ todos'[Len(todos')].todoText # << >>
              /\ Trim(todos'[Len(todos')].todoText) = todos'[Len(todos')].todoText
         /\ (\E r \in requests' \ requests : r.kind = "insertTodo") =>
              /\ pc' = pc
              /\ Len(todos) < TodoCap
              /\ Len(todos') = Len(todos) + 1 ]_vars

\* the backend held four rows and the remote pull kept three of them, the
\* row of the todo whose delete had failed among them
C22_Witness ==
  /\ pc = "ready"
  /\ Len(todos) = TodoCap
  /\ Cardinality(remoteTodos) > TodoCap
  /\ \E i \in 1..Len(todos) : todos[i].id = 0 - (TodoCap + 1)

\* the todos with every completed flag cleared
FlagsCleared(t) == [i \in 1..Len(t) |-> [t[i] EXCEPT !.completed = FALSE]]

\* C23: the first syncTodoDailyReset on a day that differs from the stored
\* marker clears completed on every todo, stores today as the marker and
\* reports changed (every todo is pushed) exactly when a flag was cleared; a
\* further call on the same day changes no todo and reports unchanged; the
\* snapshot a later startup reads holds the todos as they were left.
C23_TodoFlagsResetOncePerDay ==
  /\ [][ LoadSettles =>
           IF todoDay # today
           THEN /\ todos' = FlagsCleared(todos)
                /\ todoDay' = today
                /\ requests' = requests \cup
                     (IF todos' # todos THEN todoUpdatePushes(todos') ELSE {})
           ELSE /\ todos' = todos
                /\ todoDay' = todoDay
                /\ requests' = requests ]_vars
  /\ [][ (pc = "created" /\ pc' # pc) => todos' = storage.todos ]_vars
  /\ [](pc # "created" => storage.todos = todos)

\* a todo completed on a day after the first one, after that day's reset
C23_Witness ==
  /\ pc = "ready"
  /\ today >= 2
  /\ todoDay = today
  /\ lastSyncDay = today
  /\ \E i \in 1..Len(todos) : todos[i].completed

\* the days of the focus entries of a log
FocusDaysOf(h) ==
  {h[i].completedAt : i \in {j \in 1..Len(h) : h[j].sessionType = "focus"}}

\* the length of the longest run of consecutive days all in the set
LongestRun(days) ==
  LET runs == {n \in 0..Cardinality(days) :
                 n = 0 \/ \E d \in days : \A k \in 0..(n - 1) : (d + k) \in days}
  IN CHOOSE n \in runs : \A o \in runs : o <= n

\* C24: bestStreakFromHistory is the length of the longest run of
\* consecutive calendar days each having at least one focus entry; break
\* entries and repeated focus entries on a day do not count, and a log
\* without focus entries gives 0.
C24_BestStreakIsLongestRun ==
  bestStreakFromHistory(history) = LongestRun(FocusDaysOf(history))

\* focus entries on days 1, 2, 3 and 5: the best streak is 3
C24_Witness ==
  /\ pc = "ready"
  /\ FocusDaysOf(history) = {1, 2, 3, 5}
  /\ bestStreakFromHistory(history) = 3

\* C25 as stated: what was done between mount and the end of the startup
\* sequence is still there when startup finishes: every history entry and
\* every todo in memory when the remote pull settles is in memory and in the
\* local snapshot afterwards, and no credited session is taken back.
C25_StartupKeepsLocalChanges ==
  [][ LoadSettles =>
        /\ \A i \in 1..Len(history) :
             /\ \E j \in 1..Len(history') : history'[j].id = history[i].id
             /\ \E j \in 1..Len(storage'.history) : storage'.history[j].id = history[i].id
        /\ \A i \in 1..Len(todos) :
             /\ \E j \in 1..Len(todos') : todos'[j].id = todos[i].id
             /\ \E j \in 1..Len(storage'.todos) : storage'.todos[j].id = todos[i].id
        /\ garden'.totalSessions >= garden.totalSessions ]_vars

\* C26: when a startup remote read fails, no remote result is applied:
\* garden, history and todos keep their local values, and startup still
\* runs the daily counter sync, the todo daily reset and the snapshot write.
C26_FailedPullKeepsLocalState ==
  [][ LoadSettles =>
        /\ garden' = syncDailyCounters(garden, today).garden
        /\ history' = history
        /\ todos' = syncTodoDailyReset(todos, todoDay, today).todos
        /\ todoDay' = today
        /\ storage' = MemorySnapshot' ]_vars

\* startup ended on a failed pull while the backend held a garden row and a
\* history row that differ from the local garden and log
C26_Witness ==
  /\ pc = "ready"
  /\ lastSyncDay = today
  /\ gardenUpserts = << >>
  /\ remoteGarden # NoRow
  /\ gardenFromRow(remoteGarden) # garden
  /\ Cardinality(remoteHistory) # Len(history)
  /\ todos # << >>
  /\ \A i \in 1..Len(todos) : todoRow(todos[i]) \notin remoteTodos

\* C27: the interval handle is set exactly when running is true, and at
\* most one interval is active, whatever the sequence of start, pause,
\* reset, switch mode, preset and completion.
C27_OneTickSource ==
  /\ timer <=> running
  /\ activeIntervals = (IF running THEN 1 ELSE 0)

\* the timer was started again after a completed countdown and a preset
C27_Witness ==
  /\ running
  /\ timer
  /\ activeIntervals = 1
  /\ history # << >>
  /\ focusMinutes = 25

\* C28 as stated: once the page is up, through start, pause, reset, switch
\* mode, ticks, presets and duration edits, secondsLeft stays between 1 and
\* the full length of the current mode under the configured minutes.
C28_SecondsLeftWithinDuration ==
  pc = "ready" =>
    /\ 1 <= secondsLeft
    /\ secondsLeft <= durationFor(mode, focusMinutes, breakMinutes) * TicksPerMinute

\* C29: from the empty garden, through focus completions, day changes and
\* daily syncs without a remote load, sessionsToday <= totalSessions,
\* streakDays <= totalSessions, and lastSessionDate is set exactly when
\* totalSessions >= 1, in which case streakDays >= 1.
C29_GardenCountersConsistent ==
  /\ garden.sessionsToday <= garden.totalSessions
  /\ garden.streakDays <= garden.totalSessions
  /\ (garden.lastSessionDate # NoDate) <=> (garden.totalSessions >= 1)
  /\ garden.totalSessions >= 1 => garden.streakDays >= 1

\* a second focus session, completed the day after the first one and after
\* the daily sync of a startup on that day
C29_Witness ==
  /\ garden.totalSessions = 2
  /\ garden.sessionsToday = 1
  /\ garden.streakDays = 2
  /\ garden.lastSessionDate = today
  /\ lastSyncDay = NoDate

\* C30 as stated: the just-planted index set of a focus completion marks
\* exactly the plants it added: every index in it is rendered after the
\* completion and was not rendered before it, and the set is non-empty
\* exactly when plantCount increased.
C30_JustPlantedAreNewPlants ==
  [][ FocusCompletionStep =>
        LET prevCount == garden.totalSessions
            newCount == garden'.totalSessions
            planted == newPlantIndices(prevCount, newCount)
        IN /\ \A i \in planted : /\ i < plantCount(newCount)
                                 /\ i >= plantCount(prevCount)
           /\ (planted # {}) <=> (plantCount(newCount) > plantCount(prevCount)) ]_vars

====
